---- MODULE Spec2Model ----
(***************************************************************************)
(* Model of src/src/response.rs: ResponseExt::text, ResponseExt::text_async*)
(* and get_encoding.                                                       *)
(*                                                                         *)
(* A response is a content-type header value and a body.  The body is a    *)
(* script of read results (chunks of bytes, "interrupted" errors, other    *)
(* errors); once the script is used up every read returns Ok(0).  The two  *)
(* methods run on two responses with the same headers and the same body    *)
(* script, so that their outcomes can be compared.                         *)
(*                                                                         *)
(* Bytes are their numeric values, text is a sequence of code points.      *)
(* The body alphabet is 0x68 'h', 0xC3 and 0xA9: in UTF-8 0xC3 0xA9 is the *)
(* two-byte encoding of U+00E9, in windows-1252 the bytes are U+00C3 and   *)
(* U+00A9.  Byte-order-mark sniffing of the decoder is outside the model   *)
(* (no body byte is 0xEF, 0xFE or 0xFF).                                   *)
(***************************************************************************)
EXTENDS Integers, Sequences, FiniteSets, TLC

(* ------------------------------ bounds --------------------------------- *)

\* The longest chunk one read returns.
MaxChunkLen == 1

\* The number of read results a body script holds before end of stream.
MaxReads == 2

(* ------------------------- program constants --------------------------- *)

\* let mut buf = [0; 8192];
BufSize == 8192

\* String::new() allocates nothing: the capacity of the output buffer.
StringNewCapacity == 0

\* U+FFFD REPLACEMENT CHARACTER, what decode_to_string writes for a
\* malformed sequence.
U_FFFD == 65533

(* ------------------------------- values -------------------------------- *)

None == <<"None">>

\* The err field of a result that carries no error.
NoError == "NoError"

Some(x) == <<"Some", x>>

UTF_8 == "UTF-8"

WINDOWS_1252 == "windows-1252"

Encodings == {UTF_8, WINDOWS_1252}

BodyBytes == {104, 195, 169}

Min(a, b) == IF a < b THEN a ELSE b

Chunks == UNION {[1..n -> BodyBytes] : n \in 1..Min(MaxChunkLen, BufSize)}

Interrupted == "Interrupted"

ConnectionReset == "ConnectionReset"

InvalidData == "InvalidData"

\* What one call of read() on the body gives: Ok(len) with len > 0 bytes in
\* buf, or Err(e).  Ok(0) is what every read gives after the script.
ReadOk(c) == [kind |-> "Ok", bytes |-> c, err |-> NoError]

ReadErr(e) == [kind |-> "Err", bytes |-> <<>>, err |-> e]

ReadResults ==
    {ReadOk(c) : c \in Chunks} \cup {ReadErr(Interrupted), ReadErr(ConnectionReset)}

Scripts == UNION {[1..n -> ReadResults] : n \in 0..MaxReads}

(* ------------------------------ headers -------------------------------- *)

\* The content-type header of a response:
\*   present   the header map has the field
\*   visible   HeaderValue::to_str succeeds (only visible ASCII)
\*   mime      the text parses as a mime::Mime
\*   params    the parameters of the MIME value, <<name, value>> in order, as
\*             they are written in the header
NoContentType == [present |-> FALSE, visible |-> FALSE, mime |-> FALSE, params |-> <<>>]

OpaqueContentType == [present |-> TRUE, visible |-> FALSE, mime |-> FALSE, params |-> <<>>]

NotMimeContentType == [present |-> TRUE, visible |-> TRUE, mime |-> FALSE, params |-> <<>>]

MimeContentType(ps) == [present |-> TRUE, visible |-> TRUE, mime |-> TRUE, params |-> ps]

ParamNames == {"charset", "CHARSET"}

Labels == {"utf-8", "iso-8859-1", "ISO-8859-1", "x-bogus"}

ContentTypes ==
    {NoContentType, OpaqueContentType, NotMimeContentType, MimeContentType(<<>>),
     MimeContentType(<<<<"boundary", "x">>>>)}
        \cup {MimeContentType(<<<<n, l>>>>) : n \in ParamNames, l \in Labels}

\* ASCII lower-casing of the names and labels the model uses.
to_ascii_lowercase(s) ==
    CASE s = "CHARSET" -> "charset"
      [] s = "ISO-8859-1" -> "iso-8859-1"
      [] OTHER -> s

\* Mime::get_param: parameter names are compared case-insensitively (the
\* mime crate lower-cases them when parsing); the first match wins.
RECURSIVE get_param(_, _)
get_param(params, name) ==
    IF params = <<>> THEN None
    ELSE IF to_ascii_lowercase(Head(params)[1]) = name THEN Some(Head(params)[2])
    ELSE get_param(Tail(params), name)

\* encoding_rs::Encoding::for_label: the WHATWG label table, matched
\* ASCII-case-insensitively; "iso-8859-1" is a label of windows-1252.
for_label(label) ==
    LET l == to_ascii_lowercase(label) IN
    CASE l = "utf-8" -> Some(UTF_8)
      [] l = "iso-8859-1" -> Some(WINDOWS_1252)
      [] l = "windows-1252" -> Some(WINDOWS_1252)
      [] OTHER -> None

\* The expression of lines 235-238:
\*   .and_then(|mime| mime.get_param("charset")) ... .and_then(for_label)
\*   .unwrap_or(UTF_8)
charset_chain(content_type) ==
    LET charset == get_param(content_type.params, "charset") IN
    IF charset = None THEN UTF_8
    ELSE IF for_label(charset[2]) = None THEN UTF_8
    ELSE for_label(charset[2])[2]

\* get_encoding.  Every path ends in None: the `?` on a missing header, the
\* two `return None` on a value that is not text or not a MIME value, and the
\* final expression `None`.  The chain of lines 235-238 hangs off no value and
\* its result goes nowhere.
get_encoding(content_type) ==
    IF ~content_type.present THEN None
    ELSE IF ~content_type.visible THEN None
    ELSE IF ~content_type.mime THEN None
    ELSE LET unused == charset_chain(content_type) IN None

(* ------------------------------ decoder -------------------------------- *)

Utf8Len(cp) == IF cp < 128 THEN 1 ELSE IF cp < 2048 THEN 2 ELSE 3

RECURSIVE Utf8Size(_)
Utf8Size(chars) ==
    IF chars = <<>> THEN 0 ELSE Utf8Len(Head(chars)) + Utf8Size(Tail(chars))

IsLead2(b) == b >= 194 /\ b <= 223

IsContinuation(b) == b >= 128 /\ b <= 191

\* Encoding::new_decoder: no bytes of an unfinished sequence are held.
new_decoder(encoding) == [encoding |-> encoding, pending |-> <<>>]

\* String::new()
String_new == [chars |-> <<>>, capacity |-> StringNewCapacity]

\* The decoder on one input byte b: what it appends, the bytes of an
\* unfinished sequence it keeps, and whether b was consumed (a byte that ends
\* a malformed sequence without belonging to it is looked at again).
\* windows-1252 maps the bytes below 0x80 and from 0xA0 up to the code point
\* of the same number; UTF-8 is modelled for one- and two-byte sequences,
\* which is all the bytes of BodyBytes can form.
decode_byte(decoder, b) ==
    IF decoder.encoding = WINDOWS_1252
    THEN [out |-> <<b>>, pending |-> <<>>, consumed |-> TRUE]
    ELSE IF decoder.pending # <<>>
    THEN IF IsContinuation(b)
         THEN [out |-> <<(decoder.pending[1] - 192) * 64 + (b - 128)>>,
               pending |-> <<>>, consumed |-> TRUE]
         ELSE [out |-> <<U_FFFD>>, pending |-> <<>>, consumed |-> FALSE]
    ELSE IF b < 128 THEN [out |-> <<b>>, pending |-> <<>>, consumed |-> TRUE]
    ELSE IF IsLead2(b) THEN [out |-> <<>>, pending |-> <<b>>, consumed |-> TRUE]
    ELSE [out |-> <<U_FFFD>>, pending |-> <<>>, consumed |-> TRUE]

\* Decoder::decode_to_utf8 with replacement on `free` bytes of output space:
\* [result, read, out, decoder].  The decoder stops with OutputFull when the
\* space left cannot hold the longest thing one step may write.
RECURSIVE decode_to_utf8(_, _, _, _)
decode_to_utf8(decoder, src, free, last) ==
    IF src = <<>>
    THEN IF last /\ decoder.pending # <<>>
         THEN IF free < Utf8Len(U_FFFD)
              THEN [result |-> "OutputFull", read |-> 0, out |-> <<>>, decoder |-> decoder]
              ELSE [result |-> "InputEmpty", read |-> 0, out |-> <<U_FFFD>>,
                    decoder |-> [decoder EXCEPT !.pending = <<>>]]
         ELSE [result |-> "InputEmpty", read |-> 0, out |-> <<>>, decoder |-> decoder]
    ELSE IF free < Utf8Len(U_FFFD)
    THEN [result |-> "OutputFull", read |-> 0, out |-> <<>>, decoder |-> decoder]
    ELSE LET step == decode_byte(decoder, Head(src))
             rest == decode_to_utf8([decoder EXCEPT !.pending = step.pending],
                                    IF step.consumed THEN Tail(src) ELSE src,
                                    free - Utf8Size(step.out), last)
         IN [result |-> rest.result,
             read |-> rest.read + (IF step.consumed THEN 1 ELSE 0),
             out |-> step.out \o rest.out,
             decoder |-> rest.decoder]

\* Decoder::decode_to_string(src, &mut string, last): the output goes to the
\* spare capacity of the string, which is never reallocated.
decode_to_string(decoder, src, string, last) ==
    LET r == decode_to_utf8(decoder, src, string.capacity - Utf8Size(string.chars), last)
    IN [result |-> r.result, read |-> r.read, decoder |-> r.decoder,
        string |-> [string EXCEPT !.chars = string.chars \o r.out]]

\* std::str::from_utf8 on the bytes read_to_string has read.
from_utf8(bytes) ==
    LET r == decode_to_utf8(new_decoder(UTF_8), bytes, 4 * Len(bytes) + 4, TRUE)
    IN IF \E i \in 1..Len(r.out) : r.out[i] = U_FFFD THEN None ELSE Some(r.out)

(* ------------------------------- state --------------------------------- *)

Methods == {"text", "text_async"}

VARIABLES
    feature_encoding,   \* the build has cfg(feature = "encoding")
    content_type,       \* the content-type header of the response
    script,             \* the read results the body gives, in order
    pc,                 \* per method: where the call stands
    pos,                \* per method: read results taken from its body
    encoding,           \* per method: what get_encoding returned
    decoder,            \* per method: the decoder (bytes of an unfinished sequence)
    string,             \* per method: the output buffer
    buf,                \* per method: &buf[..len] of the last read
    outcome,            \* per method: what the caller got
    calls               \* per method: the decode_to_string calls made, in order

vars == <<feature_encoding, content_type, script, pc, pos, encoding, decoder,
          string, buf, outcome, calls>>

NoOutcome == [kind |-> "None", text |-> <<>>, err |-> NoError]

\* Ok(string)
Ok(s) == [kind |-> "Ok", text |-> s.chars, err |-> NoError]

\* Err(e.into())
Err(e) == [kind |-> "Err", text |-> <<>>, err |-> e]

\* Option::unwrap on None
Panic == [kind |-> "Panic", text |-> <<>>, err |-> NoError]

\* One decode_to_string call: the input it was given, its last flag, and the
\* (CoderResult, bytes read) it returned.
DecodeCall(src, last, d) ==
    [src |-> src, last |-> last, result |-> d.result, read |-> d.read]

\* self.body_mut().read(&mut buf): the next result of the script, Ok(0) after it.
read(m) == IF pos[m] < Len(script) THEN script[pos[m] + 1] ELSE ReadOk(<<>>)

advance(m) == IF pos[m] < Len(script) THEN pos[m] + 1 ELSE pos[m]

Init ==
    /\ feature_encoding \in BOOLEAN
    /\ content_type \in ContentTypes
    /\ script \in Scripts
    /\ pc = [m \in Methods |-> "start"]
    /\ pos = [m \in Methods |-> 0]
    /\ encoding = [m \in Methods |-> None]
    /\ decoder = [m \in Methods |-> new_decoder(UTF_8)]
    /\ string = [m \in Methods |-> String_new]
    /\ buf = [m \in Methods |-> <<>>]
    /\ outcome = [m \in Methods |-> NoOutcome]
    /\ calls = [m \in Methods |-> <<>>]

(* ----------------- text(), cfg(feature = "encoding") ------------------- *)

\* Lines 131-135: get_encoding(self).unwrap(), the decoder, the string.
text_entry ==
    /\ pc["text"] = "start"
    /\ feature_encoding
    /\ LET e == get_encoding(content_type) IN
       IF e = None
       THEN /\ pc' = [pc EXCEPT !["text"] = "panicked"]
            /\ outcome' = [outcome EXCEPT !["text"] = Panic]
            /\ UNCHANGED <<encoding, decoder, string>>
       ELSE /\ pc' = [pc EXCEPT !["text"] = "read"]
            /\ encoding' = [encoding EXCEPT !["text"] = e]
            /\ decoder' = [decoder EXCEPT !["text"] = new_decoder(e[2])]
            /\ string' = [string EXCEPT !["text"] = String_new]
            /\ UNCHANGED outcome
    /\ UNCHANGED <<feature_encoding, content_type, script, pos, buf, calls>>

\* text_read with no arm for Interrupted at line 141: every Err is returned.
text_read_no_retry ==
    /\ pc["text"] = "read"
    /\ LET r == read("text") IN
       /\ pos' = [pos EXCEPT !["text"] = advance("text")]
       /\ IF r.kind = "Ok" /\ r.bytes = <<>>
          THEN /\ pc' = [pc EXCEPT !["text"] = "returned"]
               /\ outcome' = [outcome EXCEPT !["text"] = Ok(string["text"])]
               /\ UNCHANGED buf
          ELSE IF r.kind = "Ok"
          THEN /\ pc' = [pc EXCEPT !["text"] = "decode"]
               /\ buf' = [buf EXCEPT !["text"] = r.bytes]
               /\ UNCHANGED outcome
          ELSE /\ pc' = [pc EXCEPT !["text"] = "returned"]
               /\ outcome' = [outcome EXCEPT !["text"] = Err(r.err)]
               /\ UNCHANGED buf
    /\ UNCHANGED <<feature_encoding, content_type, script, encoding, decoder, string, calls>>

\* Lines 138-146 and 156: one read and the match on its result.
text_read ==
    /\ pc["text"] = "read"
    /\ LET r == read("text") IN
       /\ pos' = [pos EXCEPT !["text"] = advance("text")]
       /\ IF r.kind = "Ok" /\ r.bytes = <<>>
          THEN /\ pc' = [pc EXCEPT !["text"] = "returned"]
               /\ outcome' = [outcome EXCEPT !["text"] = Ok(string["text"])]
               /\ UNCHANGED buf
          ELSE IF r.kind = "Ok"
          THEN /\ pc' = [pc EXCEPT !["text"] = "decode"]
               /\ buf' = [buf EXCEPT !["text"] = r.bytes]
               /\ UNCHANGED outcome
          ELSE IF r.err = Interrupted
          THEN UNCHANGED <<pc, buf, outcome>>
          ELSE /\ pc' = [pc EXCEPT !["text"] = "returned"]
               /\ outcome' = [outcome EXCEPT !["text"] = Err(r.err)]
               /\ UNCHANGED buf
    /\ UNCHANGED <<feature_encoding, content_type, script, encoding, decoder, string, calls>>

\* text_decode with the chunk decoded into a new string that takes the place
\* of the one of line 133.
text_decode_overwrite ==
    /\ pc["text"] = "decode"
    /\ LET d == decode_to_string(decoder["text"], buf["text"],
                                 [chars |-> <<>>, capacity |-> BufSize], FALSE) IN
       /\ decoder' = [decoder EXCEPT !["text"] = d.decoder]
       /\ string' = [string EXCEPT !["text"] = d.string]
       /\ calls' = [calls EXCEPT !["text"] = Append(@, DecodeCall(buf["text"], FALSE, d))]
    /\ pc' = [pc EXCEPT !["text"] = "read"]
    /\ UNCHANGED <<feature_encoding, content_type, script, pos, encoding, buf, outcome>>

\* Lines 148-153: one decode_to_string call, last = false; both arms of the
\* match on its result are empty.
text_decode ==
    /\ pc["text"] = "decode"
    /\ LET d == decode_to_string(decoder["text"], buf["text"], string["text"], FALSE) IN
       /\ decoder' = [decoder EXCEPT !["text"] = d.decoder]
       /\ string' = [string EXCEPT !["text"] = d.string]
       /\ calls' = [calls EXCEPT !["text"] = Append(@, DecodeCall(buf["text"], FALSE, d))]
    /\ pc' = [pc EXCEPT !["text"] = "read"]
    /\ UNCHANGED <<feature_encoding, content_type, script, pos, encoding, buf, outcome>>

(* --------------- text(), cfg(not(feature = "encoding")) ---------------- *)

\* Line 164: the string read_to_string fills.
text_plain_entry ==
    /\ pc["text"] = "start"
    /\ ~feature_encoding
    /\ pc' = [pc EXCEPT !["text"] = "read_to_string"]
    /\ string' = [string EXCEPT !["text"] = String_new]
    /\ buf' = [buf EXCEPT !["text"] = <<>>]
    /\ UNCHANGED <<feature_encoding, content_type, script, pos, encoding, decoder, outcome, calls>>

\* Lines 165-167: one read of Read::read_to_string.  It reads to the end of
\* the stream, reading again after an Interrupted error; any other error is
\* returned by `?`; at the end the bytes read must be UTF-8, or the error is
\* InvalidData and the string is left as it was.
text_plain_read ==
    /\ pc["text"] = "read_to_string"
    /\ LET r == read("text") IN
       /\ pos' = [pos EXCEPT !["text"] = advance("text")]
       /\ IF r.kind = "Ok" /\ r.bytes = <<>>
          THEN LET s == from_utf8(buf["text"]) IN
               /\ pc' = [pc EXCEPT !["text"] = "returned"]
               /\ IF s = None
                  THEN /\ outcome' = [outcome EXCEPT !["text"] = Err(InvalidData)]
                       /\ UNCHANGED string
                  ELSE /\ string' = [string EXCEPT !["text"] =
                                        [chars |-> s[2], capacity |-> Utf8Size(s[2])]]
                       /\ outcome' = [outcome EXCEPT !["text"] = Ok(string'["text"])]
               /\ UNCHANGED buf
          ELSE IF r.kind = "Ok"
          THEN /\ buf' = [buf EXCEPT !["text"] = buf["text"] \o r.bytes]
               /\ UNCHANGED <<pc, string, outcome>>
          ELSE IF r.err = Interrupted
          THEN UNCHANGED <<pc, buf, string, outcome>>
          ELSE /\ pc' = [pc EXCEPT !["text"] = "returned"]
               /\ outcome' = [outcome EXCEPT !["text"] = Err(r.err)]
               /\ UNCHANGED <<buf, string>>
    /\ UNCHANGED <<feature_encoding, content_type, script, encoding, decoder, calls>>

(* ----------------------------- text_async() ---------------------------- *)

\* Lines 175-179: get_encoding(self).unwrap(), the decoder, the string.
text_async_entry ==
    /\ pc["text_async"] = "start"
    /\ LET e == get_encoding(content_type) IN
       IF e = None
       THEN /\ pc' = [pc EXCEPT !["text_async"] = "panicked"]
            /\ outcome' = [outcome EXCEPT !["text_async"] = Panic]
            /\ UNCHANGED <<encoding, decoder, string>>
       ELSE /\ pc' = [pc EXCEPT !["text_async"] = "read"]
            /\ encoding' = [encoding EXCEPT !["text_async"] = e]
            /\ decoder' = [decoder EXCEPT !["text_async"] = new_decoder(e[2])]
            /\ string' = [string EXCEPT !["text_async"] = String_new]
            /\ UNCHANGED outcome
    /\ UNCHANGED <<feature_encoding, content_type, script, pos, buf, calls>>

\* Lines 182-190 and 200: one awaited read and the match on its result.
text_async_read ==
    /\ pc["text_async"] = "read"
    /\ LET r == read("text_async") IN
       /\ pos' = [pos EXCEPT !["text_async"] = advance("text_async")]
       /\ IF r.kind = "Ok" /\ r.bytes = <<>>
          THEN /\ pc' = [pc EXCEPT !["text_async"] = "returned"]
               /\ outcome' = [outcome EXCEPT !["text_async"] = Ok(string["text_async"])]
               /\ UNCHANGED buf
          ELSE IF r.kind = "Ok"
          THEN /\ pc' = [pc EXCEPT !["text_async"] = "decode"]
               /\ buf' = [buf EXCEPT !["text_async"] = r.bytes]
               /\ UNCHANGED outcome
          ELSE IF r.err = Interrupted
          THEN UNCHANGED <<pc, buf, outcome>>
          ELSE /\ pc' = [pc EXCEPT !["text_async"] = "returned"]
               /\ outcome' = [outcome EXCEPT !["text_async"] = Err(r.err)]
               /\ UNCHANGED buf
    /\ UNCHANGED <<feature_encoding, content_type, script, encoding, decoder, string, calls>>

\* Lines 192-197: one decode_to_string call, last = false; both arms of the
\* match on its result are empty.
text_async_decode ==
    /\ pc["text_async"] = "decode"
    /\ LET d == decode_to_string(decoder["text_async"], buf["text_async"],
                                 string["text_async"], FALSE) IN
       /\ decoder' = [decoder EXCEPT !["text_async"] = d.decoder]
       /\ string' = [string EXCEPT !["text_async"] = d.string]
       /\ calls' = [calls EXCEPT !["text_async"] = Append(@, DecodeCall(buf["text_async"], FALSE, d))]
    /\ pc' = [pc EXCEPT !["text_async"] = "read"]
    /\ UNCHANGED <<feature_encoding, content_type, script, pos, encoding, buf, outcome>>

(* --------------------------- specifications ---------------------------- *)

\* The program as it is written.  get_encoding gives None on every path, so
\* the unwrap of lines 131 and 175 panics and no call gets to its loop: the
\* loop's actions are no step of Next (LoopNeverEntered), and SpecLoop runs
\* them.
Next ==
    \/ text_entry
    \/ text_plain_entry
    \/ text_plain_read
    \/ text_async_entry

Spec == Init /\ [][Next]_vars

LoopNeverEntered == \A m \in Methods : pc[m] \notin {"read", "decode"}

\* The decode loops on their own: each method stands after its line 133 /
\* 177, with a decoder of any encoding and an empty string.
InitLoop ==
    /\ feature_encoding = TRUE
    /\ content_type \in {MimeContentType(<<<<"charset", l>>>>) : l \in {"utf-8", "iso-8859-1"}}
    /\ script \in Scripts
    /\ pc = [m \in Methods |-> "read"]
    /\ pos = [m \in Methods |-> 0]
    /\ encoding = [m \in Methods |-> Some(charset_chain(content_type))]
    /\ decoder = [m \in Methods |-> new_decoder(charset_chain(content_type))]
    /\ string = [m \in Methods |-> String_new]
    /\ buf = [m \in Methods |-> <<>>]
    /\ outcome = [m \in Methods |-> NoOutcome]
    /\ calls = [m \in Methods |-> <<>>]

NextLoop ==
    \/ text_read
    \/ text_decode
    \/ text_async_read
    \/ text_async_decode

SpecLoop == InitLoop /\ [][NextLoop]_vars

\* text_async_drop with a second await in the block, between the read of
\* line 182 and the decoder call of line 192.
text_async_drop_anywhere ==
    /\ pc["text_async"] \in {"read", "decode"}
    /\ pc' = [pc EXCEPT !["text_async"] = "dropped"]
    /\ UNCHANGED <<feature_encoding, content_type, script, pos, encoding, decoder,
                   string, buf, outcome, calls>>

\* The future text_async returns is dropped before it is done.  A future is
\* dropped only between two polls, and a poll runs the block up to its next
\* await: the one await of the block is the read of line 182.
text_async_drop ==
    /\ pc["text_async"] = "read"
    /\ pc' = [pc EXCEPT !["text_async"] = "dropped"]
    /\ UNCHANGED <<feature_encoding, content_type, script, pos, encoding, decoder,
                   string, buf, outcome, calls>>

\* The future is dropped before its first poll.  The block of line 174 runs
\* nothing until it is polled: the operation has not begun, get_encoding has
\* not been called and nothing has been read.
text_async_drop_unpolled ==
    /\ pc["text_async"] = "start"
    /\ pc' = [pc EXCEPT !["text_async"] = "unpolled"]
    /\ UNCHANGED <<feature_encoding, content_type, script, pos, encoding, decoder,
                   string, buf, outcome, calls>>

\* The program as it is written together with the loops on their own, and
\* with text_async's future dropped before its first poll or at its await.
InitAll == Init \/ InitLoop

NextAll ==
    \/ Next
    \/ NextLoop
    \/ text_async_drop
    \/ text_async_drop_unpolled

SpecAll == InitAll /\ [][NextAll]_vars

\* The program as it is written, every call running on until it ends.
FairSpec == Spec /\ WF_vars(Next)

\* In the loops nothing is ever appended: the string has no spare capacity
\* and the OutputFull result of decode_to_string is not acted on.
LoopAppendsNothing == \A m \in Methods : string[m].chars = <<>>

(* ------------------- what the claims are stated with ------------------- *)

\* The call of m has ended: it returned, or it panicked.
Finished(m) == pc[m] \in {"returned", "panicked"}

\* m resolves the encoding from the headers: text_async in every build,
\* text in a build with the "encoding" feature.
CallsGetEncoding(m) == m = "text_async" \/ feature_encoding

\* The selector the resolver is specified to give (the value of the chain of
\* lines 235-238 on a MIME value, UTF-8 otherwise).
Resolved(ct) ==
    IF ct.present /\ ct.visible /\ ct.mime THEN charset_chain(ct) ELSE UTF_8

\* The charset parameter of a content-type that parses, None without one.
Charset(ct) ==
    IF ct.present /\ ct.visible /\ ct.mime THEN get_param(ct.params, "charset") ELSE None

HasInterruption(s) == \E i \in 1..Len(s) : s[i] = ReadErr(Interrupted)

HasFailure(s) == \E i \in 1..Len(s) : s[i].kind = "Err" /\ s[i].err # Interrupted

\* The index of the first read that fails with something else than
\* "interrupted" (only used where there is one).
FirstFailure(s) ==
    CHOOSE i \in 1..Len(s) :
        /\ s[i].kind = "Err" /\ s[i].err # Interrupted
        /\ \A j \in 1..(i - 1) : ~(s[j].kind = "Err" /\ s[j].err # Interrupted)

\* The bytes of the body: the chunks of the script, in order.
RECURSIVE ScriptBytes(_)
ScriptBytes(s) ==
    IF s = <<>> THEN <<>> ELSE Head(s).bytes \o ScriptBytes(Tail(s))

\* The text the bytes stand for under an encoding: one decoder run over all
\* of them, with room for everything, the last flag set.
DecodeAll(enc, bytes) ==
    decode_to_utf8(new_decoder(enc), bytes, 4 * Len(bytes) + 4, TRUE).out

\* The bytes are the encoding of some string.
ValidUnder(enc, bytes) ==
    \A i \in 1..Len(DecodeAll(enc, bytes)) : DecodeAll(enc, bytes)[i] # U_FFFD

\* The bytes end inside a multi-byte sequence.
EndsMidSequence(enc, bytes) ==
    decode_to_utf8(new_decoder(enc), bytes, 4 * Len(bytes) + 4, FALSE).decoder.pending # <<>>

(* ------------------------------- claims -------------------------------- *)

\* C1: a body whose bytes are a valid encoding of a string under the
\* resolved encoding makes text() and text_async() return exactly that string,
\* however the bytes are split into chunks.
C1_ValidBodyDecodesExactly ==
    \A m \in Methods :
        (/\ Finished(m)
         /\ ~HasFailure(script)
         /\ ValidUnder(Resolved(content_type), ScriptBytes(script)))
        => /\ outcome[m].kind = "Ok"
           /\ outcome[m].text = DecodeAll(Resolved(content_type), ScriptBytes(script))

\* C2: without a content-type field the resolver gives the UTF-8 selector and
\* text() / text_async() go on to decode the body.
C2_NoContentTypeResolvesUtf8 ==
    \A m \in Methods :
        (CallsGetEncoding(m) /\ pc[m] # "start" /\ ~content_type.present)
        => /\ encoding[m] = Some(UTF_8)
           /\ pc[m] # "panicked"

\* C3: a content-type that parses as a MIME value with a charset parameter
\* naming a known encoding resolves to that encoding, in any letter case of
\* the parameter name and of the label.
C3_KnownCharsetResolves ==
    \A m \in Methods :
        (/\ CallsGetEncoding(m) /\ pc[m] # "start"
         /\ Charset(content_type) # None
         /\ for_label(Charset(content_type)[2]) # None)
        => encoding[m] = for_label(Charset(content_type)[2])

\* C4: a charset label that is not in the label table resolves to UTF-8 and
\* no error reaches the caller.
C4_UnknownCharsetFallsBack ==
    \A m \in Methods :
        (/\ CallsGetEncoding(m) /\ pc[m] # "start"
         /\ Charset(content_type) # None
         /\ for_label(Charset(content_type)[2]) = None)
        => /\ encoding[m] = Some(UTF_8)
           /\ pc[m] # "panicked"

\* C5: encoding resolution always gives a selector, UTF-8 for a content-type
\* that is not text or not a MIME value, and never makes the call fail or abort.
C5_ResolutionAlwaysSucceeds ==
    \A m \in Methods :
        (CallsGetEncoding(m) /\ pc[m] # "start")
        => /\ encoding[m] # None
           /\ (~content_type.visible \/ ~content_type.mime) => encoding[m] = Some(UTF_8)
           /\ pc[m] # "panicked"

\* C6: a body that ends inside a multi-byte sequence makes text() and
\* text_async() return success, with a replacement character at the end of
\* the string.
C6_TruncatedSequenceIsReplaced ==
    \A m \in Methods :
        (/\ Finished(m)
         /\ ~HasFailure(script)
         /\ EndsMidSequence(Resolved(content_type), ScriptBytes(script)))
        => /\ outcome[m].kind = "Ok"
           /\ outcome[m].text # <<>>
           /\ outcome[m].text[Len(outcome[m].text)] = U_FFFD

\* C7: interrupted reads are invisible: with any number of them, anywhere,
\* text() and text_async() return the decoded string of the body's bytes, as
\* they are to return it without the interruptions.
C7_InterruptionsInvisible ==
    \A m \in Methods :
        (/\ Finished(m)
         /\ HasInterruption(script)
         /\ ~HasFailure(script)
         /\ ValidUnder(Resolved(content_type), ScriptBytes(script)))
        => /\ outcome[m].kind = "Ok"
           /\ outcome[m].text = DecodeAll(Resolved(content_type), ScriptBytes(script))
           /\ pos[m] = Len(script)

\* C8: all or nothing: the caller gets one complete string or one error;
\* a read that fails with something else than "interrupted" is returned as
\* the error, with no text, and no read follows it.
C8_AllOrNothing ==
    \A m \in Methods :
        Finished(m)
        => /\ outcome[m].kind \in {"Ok", "Err"}
           /\ outcome[m].kind = "Err" => outcome[m].text = <<>>
           /\ HasFailure(script)
              => /\ outcome[m] = Err(script[FirstFailure(script)].err)
                 /\ pos[m] = FirstFailure(script)

\* C9: on the same read results and the same headers text() and text_async()
\* end with the same outcome: the same text, or the same failure.
C9_BlockingAndAsyncAgree ==
    (Finished("text") /\ Finished("text_async"))
    => outcome["text"] = outcome["text_async"]

\* C10: a body of zero length (the first successful read gives zero bytes)
\* makes text() and text_async() return the empty string, for every header map.
C10_EmptyBodyIsEmptyString ==
    \A m \in Methods :
        (/\ Finished(m)
         /\ ~HasFailure(script)
         /\ ScriptBytes(script) = <<>>)
        => outcome[m] = Ok(String_new)

\* C11: bytes that are malformed under the resolved encoding are no error:
\* the call returns success, each malformed sequence is one replacement
\* character and the valid bytes around it are decoded as they are.
C11_MalformedIsReplaced ==
    \A m \in Methods :
        (/\ Finished(m)
         /\ ~HasFailure(script)
         /\ ~ValidUnder(Resolved(content_type), ScriptBytes(script)))
        => /\ outcome[m].kind = "Ok"
           /\ outcome[m].text = DecodeAll(Resolved(content_type), ScriptBytes(script))
           /\ \E i \in 1..Len(outcome[m].text) : outcome[m].text[i] = U_FFFD

\* C12: the call consumes the whole body: success comes only after a read
\* gave end of stream, when no read fails every read result of the body has
\* been taken, once and in order, and the body is left at its end, so that the
\* first read of another call gives zero bytes and that call the empty string.
C12_ConsumesWholeBody ==
    \A m \in Methods :
        /\ outcome[m].kind = "Ok" => pos[m] = Len(script)
        /\ (Finished(m) /\ ~HasFailure(script))
           => /\ pos[m] = Len(script)
              /\ read(m) = ReadOk(<<>>)

(* ----------------- what the loop claims are stated with ---------------- *)

IsPrefix(s, t) == Len(s) <= Len(t) /\ SubSeq(t, 1, Len(s)) = s

LastCall(m) == calls[m][Len(calls[m])]

\* The chunks m has taken from its body, in order.
RECURSIVE ChunksOf(_)
ChunksOf(s) ==
    IF s = <<>> THEN <<>>
    ELSE IF Head(s).kind = "Ok" THEN <<Head(s).bytes>> \o ChunksOf(Tail(s))
    ELSE ChunksOf(Tail(s))

ChunksTaken(m) == ChunksOf(SubSeq(script, 1, pos[m]))

\* The number of bytes m has taken from its body: its place in the stream.
BytesTaken(m) == Len(ScriptBytes(SubSeq(script, 1, pos[m])))

\* The inputs of the decoder calls of m, in order.
CallInputs(m) == [i \in 1..Len(calls[m]) |-> calls[m][i].src]

C15_InterruptedChangesNothing ==
    [][\A m \in Methods :
          (/\ pc[m] \in {"read", "read_to_string"}
           /\ read(m) = ReadErr(Interrupted)
           /\ pos'[m] # pos[m])
          => /\ string'[m] = string[m]
             /\ decoder'[m] = decoder[m]
             /\ calls'[m] = calls[m]
             /\ buf'[m] = buf[m]
             /\ outcome'[m] = outcome[m]
             /\ Len(ScriptBytes(SubSeq(script, 1, pos'[m]))) = BytesTaken(m)
             /\ pc'[m] = pc[m]]_vars

\* An interrupted read has been handled in a loop, which stands at its next read.
C15_Witness ==
    \E m \in Methods :
        /\ pc[m] = "read"
        /\ pos[m] > 0
        /\ script[pos[m]] = ReadErr(Interrupted)

\* C16: every decode operation ends: on a finite body with finitely many
\* interruptions text() and text_async() eventually return a string or an error.
C16_EventuallyReturns ==
    <>(\A m \in Methods : outcome[m].kind \in {"Ok", "Err"})

AbandonedConsistent ==
    /\ pos["text_async"] <= Len(script)
    /\ CallInputs("text_async") = ChunksTaken("text_async")

====
